---- MODULE Spec2Model ----
(***************************************************************************)
(* Model of the hyper-parameter tuning layer: the base tuner ParamTuning   *)
(* (param_tuning.py) and the two SVM model families (svm_tuning.py).       *)
(*                                                                         *)
(* Python values are tagged records, so that None, numbers of either type, *)
(* strings, lists and dicts can be told apart and compared.  Floats are    *)
(* kept in hundredths: PyFloat(570) is 5.7 and PyFloat(1) is 0.01.         *)
(*                                                                         *)
(* The search back ends (GridSearchCV, RandomizedSearchCV, the Bayesian    *)
(* optimizer, the estimators and the plotting surface) are collaborators   *)
(* outside the repository: a call into one of them either raises or        *)
(* returns a value of the shape its interface promises, and the model      *)
(* takes every such outcome.                                               *)
(***************************************************************************)
EXTENDS Integers, Sequences, FiniteSets, TLC

(***************************************************************************)
(* Bounds of the exploration.                                              *)
(***************************************************************************)
\* the widest feature matrix and the longest feature-name list handed to
\* __init__; each is MaxCols or one less
MaxCols == 2
\* the winning combination a search back end reports is one of the first
\* MaxCand "diagonal" combinations of the grid: the i-th candidate of every
\* list (the last one where a list is shorter)
MaxCand == 2

(***************************************************************************)
(* Python values.                                                          *)
(***************************************************************************)
PyNone == [t |-> "None"]
PyInt(n) == [t |-> "int", v |-> n]
PyFloat(h) == [t |-> "float", v |-> h]
PyStr(s) == [t |-> "str", v |-> s]
PyList(q) == [t |-> "list", v |-> q]
PyDict(f) == [t |-> "dict", v |-> f]
EmptyDict == PyDict([k \in {} |-> PyNone])

\* d[k] = x
DictSet(d, k, x) == PyDict([j \in DOMAIN d.v \cup {k} |-> IF j = k THEN x ELSE d.v[j]])
\* d.update(e)
DictUpdate(d, e) ==
    PyDict([j \in DOMAIN d.v \cup DOMAIN e.v |-> IF j \in DOMAIN e.v THEN e.v[j] ELSE d.v[j]])
\* int(x) of a number: truncation of a float, identity on an int
IntCast(x) == IF x.t = "float" THEN PyInt(x.v \div 100) ELSE x
\* list(reversed(q))
Reversed(q) == [i \in 1..Len(q) |-> q[Len(q) + 1 - i]]

(***************************************************************************)
(* The classes.  OverridingTuning stands for a subclass of ParamTuning     *)
(* that supplies the objective callback and inherits every class constant. *)
(***************************************************************************)
ParamTuning == "ParamTuning"
SVMRegressorTuning == "SVMRegressorTuning"
SVMClassifierTuning == "SVMClassifierTuning"
OverridingTuning == "OverridingTuning"
SVMClasses == {SVMRegressorTuning, SVMClassifierTuning}
Classes == {ParamTuning, SVMRegressorTuning, SVMClassifierTuning, OverridingTuning}

SEED == 42
CV_NUM == 5
N_ITER_RANDOM == 200
N_ITER_BAYES == 100
INIT_POINTS == 20
ACQ == PyStr("ei")

\* an estimator, as far as the tuner looks at it: its kind, the name of its
\* final pipeline step (None when it is not a pipeline) and its fitted
\* feature_importances_ (None when it has no such attribute)
Estimator(kind, step, imp) ==
    [t |-> "estimator", kind |-> kind, step |-> step, feature_importances_ |-> imp]

CV_MODEL(c) ==
    CASE c = SVMRegressorTuning -> Estimator("Pipeline", PyStr("svr"), PyNone)
      [] c = SVMClassifierTuning -> Estimator("Pipeline", PyStr("svc"), PyNone)
      [] OTHER -> PyNone

FIT_PARAMS(c) == EmptyDict

SCORING(c) ==
    CASE c = SVMRegressorTuning -> PyStr("neg_mean_squared_error")
      [] c = SVMClassifierTuning -> PyStr("neg_log_loss")
      [] OTHER -> PyNone

NOT_OPT_PARAMS(c) ==
    IF c \in SVMClasses THEN PyDict([k \in {"kernel"} |-> PyList(<<PyStr("rbf")>>)])
    ELSE EmptyDict

\* the grids as the class bodies declare them, NOT_OPT_PARAMS merged in
DeclaredGrid(c) ==
    CASE c = SVMRegressorTuning ->
           DictUpdate(PyDict([k \in {"gamma", "C", "epsilon"} |->
               CASE k = "gamma" -> PyList(<<PyFloat(1), PyFloat(3), PyFloat(10), PyFloat(30),
                                          PyInt(1), PyInt(3), PyInt(10)>>)
                 [] k = "C" -> PyList(<<PyFloat(10), PyFloat(30), PyInt(1), PyInt(3), PyInt(10)>>)
                 [] k = "epsilon" -> PyList(<<PyInt(0), PyFloat(10), PyFloat(20), PyFloat(30)>>)]),
               NOT_OPT_PARAMS(c))
      [] c = SVMClassifierTuning ->
           DictUpdate(PyDict([k \in {"gamma", "C"} |->
               CASE k = "gamma" -> PyList(<<PyFloat(1), PyFloat(3), PyFloat(10), PyFloat(30),
                                          PyInt(1), PyInt(3), PyInt(10)>>)
                 [] k = "C" -> PyList(<<PyFloat(10), PyFloat(30), PyInt(1), PyInt(3), PyInt(10)>>)]),
               NOT_OPT_PARAMS(c))
      [] OTHER -> DictUpdate(EmptyDict, NOT_OPT_PARAMS(c))

DeclaredRandom(c) ==
    CASE c = SVMRegressorTuning ->
           DictUpdate(PyDict([k \in {"gamma", "C", "epsilon"} |->
               CASE k = "gamma" -> PyList(<<PyFloat(1), PyFloat(2), PyFloat(5), PyFloat(10), PyFloat(20),
                                          PyFloat(50), PyInt(1), PyInt(2), PyInt(5), PyInt(10)>>)
                 [] k = "C" -> PyList(<<PyFloat(10), PyFloat(20), PyFloat(50), PyInt(1), PyInt(2),
                                      PyInt(5), PyInt(10)>>)
                 [] k = "epsilon" -> PyList(<<PyInt(0), PyFloat(5), PyFloat(10), PyFloat(15),
                                            PyFloat(20), PyFloat(25), PyFloat(30)>>)]),
               NOT_OPT_PARAMS(c))
      [] c = SVMClassifierTuning ->
           DictUpdate(PyDict([k \in {"gamma", "C"} |->
               CASE k = "gamma" -> PyList(<<PyFloat(1), PyFloat(2), PyFloat(5), PyFloat(10), PyFloat(20),
                                          PyFloat(50), PyInt(1), PyInt(2), PyInt(5), PyInt(10)>>)
                 [] k = "C" -> PyList(<<PyFloat(10), PyFloat(20), PyFloat(50), PyInt(1), PyInt(2),
                                      PyInt(5), PyInt(10)>>)]),
               NOT_OPT_PARAMS(c))
      [] OTHER -> DictUpdate(EmptyDict, NOT_OPT_PARAMS(c))

\* a range (low, high)
Range(lo, hi) == [t |-> "tuple", v |-> <<lo, hi>>]

DeclaredBayes(c) ==
    CASE c = SVMRegressorTuning ->
           PyDict([k \in {"gamma", "C", "epsilon"} |->
               CASE k = "gamma" -> Range(PyFloat(1), PyInt(10))
                 [] k = "C" -> Range(PyFloat(10), PyInt(10))
                 [] k = "epsilon" -> Range(PyInt(0), PyFloat(30))])
      [] c = SVMClassifierTuning ->
           PyDict([k \in {"gamma", "C"} |->
               CASE k = "gamma" -> Range(PyFloat(1), PyInt(10))
                 [] k = "C" -> Range(PyFloat(10), PyInt(10))])
      [] OTHER -> EmptyDict

\* {k: v[0] for k, v in NOT_OPT_PARAMS.items()}
BAYES_NOT_OPT_PARAMS(c) ==
    PyDict([k \in DOMAIN NOT_OPT_PARAMS(c).v |-> NOT_OPT_PARAMS(c).v[k].v[1]])

\* declared by the two SVM classes only
INT_PARAMS(c) == PyList(<< >>)

(***************************************************************************)
(* State.                                                                  *)
(***************************************************************************)
VARIABLES
    cls,               \* the class the tuners of this run are instances of
    CV_PARAMS_GRID,    \* class attribute of cls (one dict shared by its instances)
    CV_PARAMS_RANDOM,  \* class attribute of cls
    BAYES_PARAMS,      \* class attribute of cls
    caller,            \* the arguments this run's caller passes to every search,
                       \* besides the grid (or the ranges) and the seed
    tuner,             \* the instance: its fields, or NoTuner
    searched,          \* a search call on this instance has returned
    call               \* the last operation: arguments, what it delegated, outcome

vars == <<cls, CV_PARAMS_GRID, CV_PARAMS_RANDOM, BAYES_PARAMS, caller, tuner, searched, call>>
classVars == <<cls, CV_PARAMS_GRID, CV_PARAMS_RANDOM, BAYES_PARAMS>>

\* an estimator object of the caller's: it accepts the parameters it is
\* given and reports feature_importances_ once fitted
UserEstimator == Estimator("UserEstimator", PyNone, PyNone)
\* a splitter object of the caller's
TimeSeriesSplit == [t |-> "TimeSeriesSplit"]
\* nothing passed: every argument keeps its default (None; {} for **fit_params)
Omitted ==
    [cv_model |-> PyNone, cv |-> PyNone, scoring |-> PyNone, fit_params |-> EmptyDict, n_iter |-> PyNone,
     init_points |-> PyNone, acq |-> PyNone, bayes_not_opt_params |-> PyNone]
\* an estimator, a splitter object, and a value for each of the others
Passed ==
    [cv_model |-> UserEstimator, cv |-> TimeSeriesSplit, scoring |-> PyStr("r2"),
     fit_params |-> PyDict([k \in {"sample_weight"} |-> PyNone]), n_iter |-> PyInt(5),
     init_points |-> PyInt(3), acq |-> PyStr("ucb"),
     bayes_not_opt_params |-> PyDict([k \in {"kernel"} |-> PyStr("linear")])]
CallerArgs == {Omitted, Passed}

NoTuner == [t |-> "NoTuner"]
NoCall == [op |-> "none"]

Init ==
    /\ cls \in Classes
    /\ CV_PARAMS_GRID = DeclaredGrid(cls)
    /\ CV_PARAMS_RANDOM = DeclaredRandom(cls)
    /\ BAYES_PARAMS = DeclaredBayes(cls)
    /\ caller \in CallerArgs
    /\ tuner = NoTuner
    /\ searched = FALSE
    /\ call = NoCall

(***************************************************************************)
(* __init__                                                                *)
(***************************************************************************)
FeatureNames == <<"f1", "f2", "f3", "f4">>
\* a feature matrix is known by its column count, X.shape[1]
Matrix(ncols) == [t |-> "ndarray", ncols |-> ncols]
MatrixArgs == {Matrix(n) : n \in (MaxCols - 1)..MaxCols}
NameListArgs == {PyList(SubSeq(FeatureNames, 1, n)) : n \in (MaxCols - 1)..MaxCols}
TargetNameArgs == {PyNone, PyStr("y")}

\* (variant: X.shape[1] > len(X_colnames))
ShapeMismatchOneWay(X, X_colnames) == X.ncols > Len(X_colnames.v)
\* X.shape[1] != len(X_colnames)
ShapeMismatch(X, X_colnames) == X.ncols # Len(X_colnames.v)

NewTuner(X, y, X_colnames, y_colname) ==
    [t |-> "tuner", X |-> X, y |-> y, X_colnames |-> X_colnames, y_colname |-> y_colname,
     tuning_params |-> PyNone, bayes_not_opt_params |-> PyNone, seed |-> PyNone,
     cv |-> PyNone, fit_params |-> PyNone, best_estimator_ |-> PyNone,
     \* __init__ does not create the attribute scoring; the searches do
     scoring |-> [t |-> "unset"]]

Construct ==
    \E X \in MatrixArgs, X_colnames \in NameListArgs, y_colname \in TargetNameArgs :
        LET y == [t |-> "ndarray1d"]
            args == [X |-> X, y |-> y, X_colnames |-> X_colnames, y_colname |-> y_colname]
        IN  /\ IF ShapeMismatch(X, X_colnames)
               THEN /\ tuner' = NoTuner
                    /\ call' = [op |-> "init", args |-> args, outcome |-> "raised",
                                error |-> "Exception", detail |-> "__init__"]
               ELSE /\ tuner' = NewTuner(X, y, X_colnames, y_colname)
                    /\ call' = [op |-> "init", args |-> args, outcome |-> "returned",
                                error |-> "none", detail |-> ""]
            /\ searched' = FALSE
            /\ UNCHANGED <<classVars, caller>>

(***************************************************************************)
(* Argument resolution and the steps the three searches share.             *)
(***************************************************************************)
\* if arg == None: arg = <class default>
Resolve(arg, default) == IF arg = PyNone THEN default ELSE arg
\* if fit_params == {}: fit_params = self.FIT_PARAMS
ResolveFitParams(fit_params, default) == IF fit_params = EmptyDict THEN default ELSE fit_params
\* (variant: cv_params.setdefault('random_state', [seed]))
InjectSeedIfAbsent(cv_params, seed) ==
    IF "random_state" \in DOMAIN cv_params.v THEN cv_params
    ELSE DictSet(cv_params, "random_state", PyList(<<seed>>))
\* cv_params['random_state'] = [seed]
InjectSeed(cv_params, seed) == DictSet(cv_params, "random_state", PyList(<<seed>>))
\* the hook _train_param_generation: the base class and both SVM classes
\* return their argument
train_param_generation(src_fit_params) == src_fit_params
\* KFold(n_splits=cv, shuffle=True, random_state=seed)
KFold(n_splits, shuffle, random_state) ==
    [t |-> "KFold", n_splits |-> n_splits, shuffle |-> shuffle, random_state |-> random_state]
\* if isinstance(cv, numbers.Integral): cv = KFold(...)
Splitter(cv, seed) == IF cv.t = "int" THEN KFold(cv, TRUE, seed) ELSE cv
\* (variant: the stored estimator is cleared when the search raises)
StoreBestOrReset(t, ok, model) ==
    [t EXCEPT !.best_estimator_ = IF ok THEN model ELSE PyNone]
\* self.best_estimator_ = <the fitted best model>, reached only when nothing raised
StoreBest(t, ok, model) == IF ok THEN [t EXCEPT !.best_estimator_ = model] ELSE t

(***************************************************************************)
(* What the callers pass.                                                  *)
(***************************************************************************)
\* a grid that names the optimized parameters only
CustomGrid ==
    PyDict([k \in {"C", "epsilon"} |->
        IF k = "C" THEN PyList(<<PyFloat(10), PyInt(1)>>)
        ELSE PyList(<<PyInt(0), PyFloat(10)>>)])
GridArgs == {PyNone, CustomGrid}
SeedArgs == {PyNone, PyInt(0)}
(***************************************************************************)
(* The cross-validated search back ends.                                   *)
(***************************************************************************)
BackendErrors == {"ValueError"}
Scores == {PyFloat(-25)}
ElapsedTimes == {PyFloat(125)}

Min(a, b) == IF a < b THEN a ELSE b
Combinations(grid) ==
    {PyDict([k \in DOMAIN grid.v |-> grid.v[k].v[Min(i, Len(grid.v[k].v))]]) : i \in 1..MaxCand}

\* the importances a fitted estimator reports for n features
ImportanceVectors(n) == {PyList([i \in 1..n |-> PyFloat(10 * i)])}
HasImportances(model) == model.kind = "UserEstimator"
\* the estimator after fit(X, y)
Fitted(model, X) ==
    IF HasImportances(model)
    THEN {[model EXCEPT !.feature_importances_ = v] : v \in ImportanceVectors(X.ncols)}
    ELSE {model}

\* GridSearchCV(...).fit / RandomizedSearchCV(...).fit: raises, or leaves
\* best_params_ (a combination of the grid), best_score_ and best_estimator_
SearchCV(estimator, param_grid, X) ==
    {[ok |-> FALSE, error |-> e, detail |-> "fit"] : e \in BackendErrors}
    \cup (IF estimator = PyNone THEN {}
          ELSE {[ok |-> TRUE, error |-> "none", detail |-> "", best_params_ |-> p, best_score_ |-> s,
                 best_estimator_ |-> m] :
                    p \in Combinations(param_grid), s \in Scores, m \in Fitted(estimator, X)})

\* (best_params, best_score, elapsed_time)
ResultTuple(best_params, best_score, elapsed_time) ==
    [t |-> "tuple", best_params |-> best_params, best_score |-> best_score,
     elapsed_time |-> elapsed_time]

(***************************************************************************)
(* grid_search_tuning                                                      *)
(***************************************************************************)
grid_search_tuning ==
    /\ tuner # NoTuner
    /\ \E grid \in GridArgs, seedArg \in SeedArgs, elapsed_time \in ElapsedTimes :
        LET a == [cv_model |-> caller.cv_model, cv_params |-> grid, cv |-> caller.cv, seed |-> seedArg,
                  scoring |-> caller.scoring, fit_params |-> caller.fit_params]
            cv_model == Resolve(a.cv_model, CV_MODEL(cls))
            seed == Resolve(a.seed, PyInt(SEED))
            cv_params == InjectSeed(Resolve(a.cv_params, CV_PARAMS_GRID), seed)
            scoring == Resolve(a.scoring, SCORING(cls))
            fit_params ==
                train_param_generation(ResolveFitParams(a.fit_params, FIT_PARAMS(cls)))
            cv == Splitter(Resolve(a.cv, PyInt(CV_NUM)), seed)
            delegated == [to |-> "GridSearchCV", estimator |-> cv_model, params |-> cv_params,
                          cv |-> cv, scoring |-> scoring, fit_params |-> fit_params,
                          invocations |-> 1]
        IN  \E gridcv \in SearchCV(cv_model, cv_params, tuner.X) :
                \* the class dict itself receives the seed when it is the grid in use
                /\ CV_PARAMS_GRID' = IF a.cv_params = PyNone THEN cv_params ELSE CV_PARAMS_GRID
                /\ tuner' = StoreBest([tuner EXCEPT !.tuning_params = cv_params, !.seed = seed,
                                                    !.scoring = scoring,
                                                    !.fit_params = fit_params, !.cv = cv],
                                      gridcv.ok, gridcv.best_estimator_)
                /\ searched' = (searched \/ gridcv.ok)
                /\ call' = [op |-> "grid_search_tuning", args |-> a, delegated |-> delegated,
                            outcome |-> IF gridcv.ok THEN "returned" ELSE "raised",
                            error |-> gridcv.error, detail |-> gridcv.detail,
                            result |-> IF gridcv.ok
                                       THEN ResultTuple(gridcv.best_params_, gridcv.best_score_,
                                                        elapsed_time)
                                       ELSE PyNone]
                /\ UNCHANGED <<cls, CV_PARAMS_RANDOM, BAYES_PARAMS, caller>>

(***************************************************************************)
(* random_search_tuning                                                    *)
(***************************************************************************)
random_search_tuning ==
    /\ tuner # NoTuner
    /\ \E grid \in GridArgs, seedArg \in SeedArgs, elapsed_time \in ElapsedTimes :
        LET a == [cv_model |-> caller.cv_model, cv_params |-> grid, cv |-> caller.cv, seed |-> seedArg,
                  scoring |-> caller.scoring, n_iter |-> caller.n_iter,
                  fit_params |-> caller.fit_params]
            cv_model == Resolve(a.cv_model, CV_MODEL(cls))
            seed == Resolve(a.seed, PyInt(SEED))
            cv_params == InjectSeed(Resolve(a.cv_params, CV_PARAMS_RANDOM), seed)
            scoring == Resolve(a.scoring, SCORING(cls))
            n_iter == Resolve(a.n_iter, PyInt(N_ITER_RANDOM))
            fit_params ==
                train_param_generation(ResolveFitParams(a.fit_params, FIT_PARAMS(cls)))
            cv == Splitter(Resolve(a.cv, PyInt(CV_NUM)), seed)
            delegated == [to |-> "RandomizedSearchCV", estimator |-> cv_model,
                          params |-> cv_params, cv |-> cv, random_state |-> seed,
                          n_iter |-> n_iter, scoring |-> scoring, fit_params |-> fit_params,
                          invocations |-> 1]
        IN  \E randcv \in SearchCV(cv_model, cv_params, tuner.X) :
                /\ CV_PARAMS_RANDOM' =
                       IF a.cv_params = PyNone THEN cv_params ELSE CV_PARAMS_RANDOM
                /\ tuner' = StoreBest([tuner EXCEPT !.tuning_params = cv_params, !.seed = seed,
                                                    !.scoring = scoring,
                                                    !.fit_params = fit_params, !.cv = cv],
                                      randcv.ok, randcv.best_estimator_)
                /\ searched' = (searched \/ randcv.ok)
                /\ call' = [op |-> "random_search_tuning", args |-> a, delegated |-> delegated,
                            outcome |-> IF randcv.ok THEN "returned" ELSE "raised",
                            error |-> randcv.error, detail |-> randcv.detail,
                            result |-> IF randcv.ok
                                       THEN ResultTuple(randcv.best_params_, randcv.best_score_,
                                                        elapsed_time)
                                       ELSE PyNone]
                /\ UNCHANGED <<cls, CV_PARAMS_GRID, BAYES_PARAMS, caller>>

(***************************************************************************)
(* The objective callback _bayes_evaluate.                                 *)
(***************************************************************************)
\* the keyword parameters the callback of class c declares
Signature(c) ==
    CASE c = SVMRegressorTuning -> {"gamma", "C", "epsilon"}
      [] c = SVMClassifierTuning -> {"gamma", "C"}
      [] OTHER -> {}

\* what a lookup self.<name> finds on an instance of c: the fields the
\* instance has been given, and the attributes and methods of its class
InstanceAttributes(t) ==
    {"X", "y", "X_colnames", "y_colname", "tuning_params", "bayes_not_opt_params", "seed",
     "cv", "fit_params", "best_estimator_"}
    \cup (IF t.scoring.t = "unset" THEN {} ELSE {"scoring"})
ClassAttributes(c) ==
    {"SEED", "SEEDS", "CV_NUM", "CV_MODEL", "FIT_PARAMS", "SCORING", "NOT_OPT_PARAMS",
     "CV_PARAMS_GRID", "N_ITER_RANDOM", "CV_PARAMS_RANDOM", "N_ITER_BAYES", "INIT_POINTS",
     "ACQ", "BAYES_PARAMS", "BAYES_NOT_OPT_PARAMS", "VALIDATION_CURVE_PARAMS",
     "_train_param_generation", "grid_search_tuning", "random_search_tuning",
     "_bayes_evaluate", "bayes_opt_tuning", "get_feature_importances"}
    \cup (IF c \in SVMClasses THEN {"INT_PARAMS"} ELSE {})
    \cup (IF c = SVMRegressorTuning THEN {"VALIDATION_CURVE_SCALES"} ELSE {})

\* the lookups on self that the SVM callbacks make, in evaluation order
ObjectiveReads ==
    <<"_int_conversion", "int_params", "bayes_not_opt_params", "_add_learner_name",
      "cv_model", "cv_model", "X", "y", "cv", "scoring", "fit_params">>

\* the outcome of a call: a value, or an exception with what it names
Returns(v) == [raised |-> FALSE, value |-> v, error |-> "none", detail |-> ""]
Raises(e, d) == [raised |-> TRUE, value |-> PyNone, error |-> e, detail |-> d]

\* _bayes_evaluate of the SVM classes, called with keyword arguments kwargs
SVMBayesEvaluate(c, t, kwargs) ==
    LET found == InstanceAttributes(t) \cup ClassAttributes(c)
        missing == {i \in 1..Len(ObjectiveReads) : ObjectiveReads[i] \notin found}
    IN  IF kwargs # Signature(c) THEN {Raises("TypeError", "_bayes_evaluate")}
        ELSE IF missing # {}
        THEN {Raises("AttributeError",
                     ObjectiveReads[CHOOSE i \in missing : \A j \in missing : i <= j])}
        ELSE {Returns(score) : score \in Scores}

\* _bayes_evaluate of the base class: no parameters, body "pass"
BaseBayesEvaluate(kwargs) ==
    IF kwargs # Signature(ParamTuning) THEN {Raises("TypeError", "_bayes_evaluate")}
    ELSE {Returns(PyNone)}

\* the callback of a subclass that supplies one: it takes the parameters of
\* the ranges and returns the mean cross-validated score
OverridingBayesEvaluate(kwargs) == {Returns(score) : score \in Scores}

bayes_evaluate(c, t, kwargs) ==
    CASE c \in SVMClasses -> SVMBayesEvaluate(c, t, kwargs)
      [] c = ParamTuning -> BaseBayesEvaluate(kwargs)
      [] OTHER -> OverridingBayesEvaluate(kwargs)

(***************************************************************************)
(* The Bayesian optimizer.                                                 *)
(***************************************************************************)
\* a value as a float
AsFloat(x) == IF x.t = "int" THEN PyFloat(100 * x.v) ELSE x
\* the points the optimizer can report as its maximum: every parameter at
\* the low end, strictly inside, or at the high end of its range
PointAt(pbounds, pos) ==
    PyDict([k \in DOMAIN pbounds.v |->
        LET lo == AsFloat(pbounds.v[k].v[1]).v
            hi == AsFloat(pbounds.v[k].v[2]).v
        IN  PyFloat(CASE pos = "low" -> lo
                      [] pos = "high" -> hi
                      [] OTHER -> lo + ((hi - lo) * 37) \div 100)])
Points(pbounds) == {PointAt(pbounds, pos) : pos \in {"low", "inside", "high"}}

\* BayesianOptimization(f, pbounds, random_state).maximize(...): it calls f
\* with the names of pbounds as keywords; what f raises comes out of it;
\* otherwise it raises itself or leaves max = {'params': ..., 'target': ...}.
\* Without a parameter to range over there is nothing its surrogate can be
\* fitted to, and it raises.
Maximize(c, t, pbounds) ==
    UNION {IF f.raised THEN {f}
           ELSE {Raises(e, "maximize") : e \in BackendErrors}
                \cup (IF DOMAIN pbounds.v = {} THEN {}
                      ELSE {Returns([params |-> pt, target |-> f.value]) :
                               pt \in Points(pbounds)}) :
           f \in bayes_evaluate(c, t, DOMAIN pbounds.v)}

(***************************************************************************)
(* bayes_opt_tuning                                                        *)
(***************************************************************************)
RangeArgs ==
    {PyNone,
     PyDict([k \in {"gamma", "C"} |->
         IF k = "gamma" THEN Range(PyFloat(1), PyInt(10)) ELSE Range(PyFloat(10), PyInt(10))]),
     PyDict([k \in {"min_child_weight", "max_depth"} |->
         IF k = "max_depth" THEN Range(PyInt(2), PyInt(10)) ELSE Range(PyInt(1), PyInt(10))])}

\* best_params[name] = int(best_params[name]) for the two names, in order
CastNames == <<"min_child_weight", "max_depth">>
RECURSIVE CastIntegers(_, _)
CastIntegers(best_params, names) ==
    IF names = << >> THEN Returns(best_params)
    ELSE IF Head(names) \notin DOMAIN best_params.v THEN Raises("KeyError", Head(names))
    ELSE CastIntegers(DictSet(best_params, Head(names), IntCast(best_params.v[Head(names)])),
                      Tail(names))

\* best_params.update(self.BAYES_NOT_OPT_PARAMS); best_params['random_state'] = self.seed
MergeFixed(best_params, c, t) ==
    DictSet(DictUpdate(best_params, BAYES_NOT_OPT_PARAMS(c)), "random_state", t.seed)

\* copy.deepcopy(cv_model), set_params(**best_params), fit(X, y, **fit_params)
Refit(cv_model, best_params, X) ==
    IF cv_model = PyNone THEN {Raises("AttributeError", "set_params")}
    ELSE {Raises(e, "fit") : e \in BackendErrors} \cup {Returns(m) : m \in Fitted(cv_model, X)}

bayes_opt_tuning ==
    /\ tuner # NoTuner
    /\ \E ranges \in RangeArgs, seedArg \in SeedArgs, elapsed_time \in ElapsedTimes :
        LET a == [cv_model |-> caller.cv_model, bayes_params |-> ranges, cv |-> caller.cv,
                  seed |-> seedArg, scoring |-> caller.scoring, n_iter |-> caller.n_iter,
                  init_points |-> caller.init_points, acq |-> caller.acq,
                  bayes_not_opt_params |-> caller.bayes_not_opt_params,
                  fit_params |-> caller.fit_params]
            cv_model == Resolve(a.cv_model, CV_MODEL(cls))
            bayes_params == Resolve(a.bayes_params, BAYES_PARAMS)
            seed == Resolve(a.seed, PyInt(SEED))
            scoring == Resolve(a.scoring, SCORING(cls))
            n_iter == Resolve(a.n_iter, PyInt(N_ITER_BAYES))
            init_points == Resolve(a.init_points, PyInt(INIT_POINTS))
            acq == Resolve(a.acq, ACQ)
            bayes_not_opt_params == Resolve(a.bayes_not_opt_params, BAYES_NOT_OPT_PARAMS(cls))
            fit_params ==
                train_param_generation(ResolveFitParams(a.fit_params, FIT_PARAMS(cls)))
            cv == Splitter(Resolve(a.cv, PyInt(CV_NUM)), seed)
            \* the instance as the callback sees it
            t1 == [tuner EXCEPT !.tuning_params = bayes_params,
                                !.bayes_not_opt_params = bayes_not_opt_params,
                                !.seed = seed, !.scoring = scoring,
                                !.fit_params = fit_params, !.cv = cv]
        IN  \E xgb_bo \in Maximize(cls, t1, bayes_params) :
                LET cast == IF xgb_bo.raised THEN xgb_bo
                            ELSE CastIntegers(xgb_bo.value.params, CastNames)
                    best_params == MergeFixed(cast.value, cls, t1)
                IN  \E best_model \in (IF cast.raised THEN {cast}
                                       ELSE Refit(cv_model, best_params, tuner.X)) :
                        /\ tuner' = StoreBest(t1, ~best_model.raised, best_model.value)
                        /\ searched' = (searched \/ ~best_model.raised)
                        /\ call' =
                             [op |-> "bayes_opt_tuning", args |-> a,
                              delegated |->
                                  [to |-> "BayesianOptimization", f |-> "_bayes_evaluate",
                                   pbounds |-> bayes_params, random_state |-> seed,
                                   init_points |-> init_points, n_iter |-> n_iter,
                                   acq |-> acq, invocations |-> 1,
                                   refit |-> IF cast.raised THEN PyNone
                                             ELSE [estimator |-> cv_model,
                                                   params |-> best_params,
                                                   fit_params |-> fit_params]],
                              outcome |-> IF best_model.raised THEN "raised" ELSE "returned",
                              error |-> best_model.error, detail |-> best_model.detail,
                              result |-> IF best_model.raised THEN PyNone
                                         ELSE ResultTuple(best_params, xgb_bo.value.target,
                                                          elapsed_time)]
                        /\ UNCHANGED <<classVars, caller>>

(***************************************************************************)
(* get_feature_importances                                                 *)
(***************************************************************************)
Axes == [t |-> "Axes"]
AxArgs == {PyNone, Axes}

\* (variant: the reversed copy made for the chart is handed back)
ReturnedReversed(best_estimator_) == PyList(Reversed(best_estimator_.feature_importances_.v))
\* what the call hands back: the estimator's own feature_importances_
ReturnedImportances(best_estimator_) == best_estimator_.feature_importances_

\* (variant: no test of best_estimator_ against None)
FeatureImportancesNoGuard(t, ax) ==
    IF t.best_estimator_ = PyNone \/ t.best_estimator_.feature_importances_ = PyNone
    THEN [out |-> Raises("AttributeError", "feature_importances_"), drawn |-> << >>]
    ELSE [out |-> Returns(ReturnedImportances(t.best_estimator_)),
          drawn |-> <<[surface |-> IF ax = PyNone THEN "plt" ELSE "ax",
                       y |-> Reversed(t.X_colnames.v),
                       width |-> Reversed(t.best_estimator_.feature_importances_.v)]>>]
\* the outcome of the call and the bar charts it draws
FeatureImportances(t, ax) ==
    IF t.best_estimator_ # PyNone
    THEN LET features == Reversed(t.X_colnames.v)
         IN  IF t.best_estimator_.feature_importances_ = PyNone
             THEN [out |-> Raises("AttributeError", "feature_importances_"), drawn |-> << >>]
             ELSE LET importances == Reversed(t.best_estimator_.feature_importances_.v)
                  IN  [out |-> Returns(ReturnedImportances(t.best_estimator_)),
                       drawn |-> <<[surface |-> IF ax = PyNone THEN "plt" ELSE "ax",
                                    y |-> features, width |-> importances]>>]
    ELSE [out |-> Returns(PyNone), drawn |-> << >>]

get_feature_importances ==
    /\ tuner # NoTuner
    /\ \E ax \in AxArgs :
        LET r == FeatureImportances(tuner, ax)
        IN  /\ call' = [op |-> "get_feature_importances", args |-> [ax |-> ax],
                        outcome |-> IF r.out.raised THEN "raised" ELSE "returned",
                        error |-> r.out.error, detail |-> r.out.detail,
                        result |-> r.out.value, drawn |-> r.drawn]
            /\ UNCHANGED <<classVars, caller, tuner, searched>>

Next ==
    \/ Construct
    \/ grid_search_tuning
    \/ random_search_tuning
    \/ bayes_opt_tuning
    \/ get_feature_importances

Spec == Init /\ [][Next]_vars

(***************************************************************************)
(* The properties.                                                         *)
(***************************************************************************)
SearchOps == {"grid_search_tuning", "random_search_tuning", "bayes_opt_tuning"}
Returned(op) == call.op = op /\ call.outcome = "returned"
\* the seed a call is expected to run with
ExpectedSeed == IF call.args.seed = PyNone THEN PyInt(42) ELSE call.args.seed
Has(d, k, x) == k \in DOMAIN d.v /\ d.v[k] = x

\* C1: whenever one of the three search calls returns, the best-parameter
\* mapping it returns holds the key random_state with exactly the seed the
\* call resolved: the one passed, or 42 when none was passed.
C1_SeedInBestParams ==
    (call.op \in SearchOps /\ call.outcome = "returned")
        => Has(call.result.best_params, "random_state", ExpectedSeed)

\* a grid search over the class's own grid that returned with a passed seed
C1_Witness ==
    Returned("grid_search_tuning") /\ call.args.seed = PyInt(0) /\ call.args.cv_params = PyNone

\* C2: whenever a search call returns, custom grid or not, the best-parameter
\* mapping holds every parameter of the class's NOT_OPT_PARAMS with its
\* configured value.
C2_FixedParamsInBestParams ==
    (call.op \in SearchOps /\ call.outcome = "returned")
        => \A k \in DOMAIN NOT_OPT_PARAMS(cls).v :
               Has(call.result.best_params, k, NOT_OPT_PARAMS(cls).v[k].v[1])

\* C3: in a Bayesian search the integer cast needs no parameter name to be
\* present in the optimizer's best point (it never fails on a missing name),
\* a call on an SVM class with the declared ranges in which no back end
\* raised returns, and in a returned mapping of a class that declares
\* INT_PARAMS exactly the declared parameters are integers.
C3_CastsDeclaredIntegers ==
    call.op = "bayes_opt_tuning"
        => /\ call.error # "KeyError"
           /\ (cls \in SVMClasses /\ call.args.bayes_params = PyNone
                   /\ call.error \notin BackendErrors)
                  => call.outcome = "returned"
           /\ (cls \in SVMClasses /\ call.outcome = "returned")
                  => \A k \in DOMAIN call.delegated.pbounds.v :
                         (call.result.best_params.v[k].t = "int")
                             <=> (\E i \in 1..Len(INT_PARAMS(cls).v) : INT_PARAMS(cls).v[i] = k)

\* what a call is expected to resolve an argument to
Expected(arg, default) == IF arg = PyNone THEN default ELSE arg
ExpectedFitParams ==
    IF call.args.fit_params = EmptyDict THEN FIT_PARAMS(cls) ELSE call.args.fit_params
ExpectedSplitter ==
    IF call.args.cv = PyNone THEN KFold(PyInt(5), TRUE, ExpectedSeed)
    ELSE IF call.args.cv.t = "int" THEN KFold(call.args.cv, TRUE, ExpectedSeed)
    ELSE call.args.cv
ExpectedGrid(declared) ==
    LET base == Expected(call.args.cv_params, declared)
    IN  /\ DOMAIN call.delegated.params.v = DOMAIN base.v \cup {"random_state"}
        /\ \A k \in DOMAIN base.v \ {"random_state"} : call.delegated.params.v[k] = base.v[k]
        /\ call.delegated.params.v["random_state"] = PyList(<<ExpectedSeed>>)
ExpectedFixed == Expected(call.args.bayes_not_opt_params, BAYES_NOT_OPT_PARAMS(cls))

\* C4: in each search every optional argument resolves to the value passed,
\* or to the class default when none is passed, and the resolved value is the
\* one stored on the tuner and handed to the back end; in bayes_opt_tuning the
\* fixed parameters merged into the refit model's parameters and into the
\* returned mapping are the resolved ones.
C4_ResolvedArgumentsUsed ==
    call.op \in SearchOps
        => /\ tuner.seed = ExpectedSeed
           /\ tuner.scoring = Expected(call.args.scoring, SCORING(cls))
           /\ tuner.fit_params = ExpectedFitParams
           /\ tuner.cv = ExpectedSplitter
           /\ call.op \in {"grid_search_tuning", "random_search_tuning"}
                  => /\ call.delegated.estimator = Expected(call.args.cv_model, CV_MODEL(cls))
                     /\ call.delegated.cv = ExpectedSplitter
                     /\ call.delegated.scoring = Expected(call.args.scoring, SCORING(cls))
                     /\ call.delegated.fit_params = ExpectedFitParams
                     /\ tuner.tuning_params = call.delegated.params
           /\ call.op = "grid_search_tuning" => ExpectedGrid(DeclaredGrid(cls))
           /\ call.op = "random_search_tuning"
                  => /\ ExpectedGrid(DeclaredRandom(cls))
                     /\ call.delegated.n_iter = Expected(call.args.n_iter, PyInt(200))
                     /\ call.delegated.random_state = ExpectedSeed
           /\ call.op = "bayes_opt_tuning"
                  => /\ call.delegated.pbounds = Expected(call.args.bayes_params, DeclaredBayes(cls))
                     /\ tuner.tuning_params = call.delegated.pbounds
                     /\ call.delegated.random_state = ExpectedSeed
                     /\ call.delegated.n_iter = Expected(call.args.n_iter, PyInt(100))
                     /\ call.delegated.init_points = Expected(call.args.init_points, PyInt(20))
                     /\ call.delegated.acq = Expected(call.args.acq, PyStr("ei"))
                     /\ tuner.bayes_not_opt_params = ExpectedFixed
                     /\ call.delegated.refit # PyNone
                            => /\ call.delegated.refit.estimator
                                      = Expected(call.args.cv_model, CV_MODEL(cls))
                               /\ call.delegated.refit.fit_params = ExpectedFitParams
                               /\ \A k \in DOMAIN ExpectedFixed.v :
                                      Has(call.delegated.refit.params, k, ExpectedFixed.v[k])
                     /\ call.outcome = "returned"
                            => \A k \in DOMAIN ExpectedFixed.v :
                                   Has(call.result.best_params, k, ExpectedFixed.v[k])

\* C5: __init__ with as many columns as names succeeds and leaves a tuner
\* holding the four inputs unchanged, with the best estimator and the search
\* state unset; with any other column count it raises and leaves no tuner,
\* and no search ever runs without a tuner.
C5_Construction ==
    /\ call.op = "init"
           => IF call.args.X.ncols = Len(call.args.X_colnames.v)
              THEN /\ call.outcome = "returned"
                   /\ tuner # NoTuner
                   /\ tuner.X = call.args.X /\ tuner.y = call.args.y
                   /\ tuner.X_colnames = call.args.X_colnames
                   /\ tuner.y_colname = call.args.y_colname
                   /\ tuner.best_estimator_ = PyNone /\ tuner.tuning_params = PyNone
                   /\ tuner.bayes_not_opt_params = PyNone /\ tuner.seed = PyNone
                   /\ tuner.cv = PyNone /\ tuner.fit_params = PyNone
              ELSE /\ call.outcome = "raised" /\ call.error = "Exception"
                   /\ tuner = NoTuner
    /\ tuner = NoTuner => call.op \in {"none", "init"}

\* a construction that was refused
C5_Witness ==
    call.op = "init" /\ call.outcome = "raised" /\ call.args.X.ncols < Len(call.args.X_colnames.v)

\* C6: on a tuner on which no search has returned, get_feature_importances
\* returns None, raises nothing and draws nothing.
C6_NoModelSentinel ==
    (call.op = "get_feature_importances" /\ ~searched)
        => call.outcome = "returned" /\ call.result = PyNone /\ call.drawn = << >>

\* the call on a tuner whose only search so far raised
C6_Witness == call.op = "get_feature_importances" /\ ~searched /\ tuner.seed # PyNone

\* C7: get_feature_importances changes nothing of the tuner or of its class,
\* a call that follows another one with no search between has the same
\* outcome and value, and the value returned is the estimator's importances
\* in feature order while the bars drawn are the reversed names and values.
C7_ImportancesIdempotent ==
    [][call'.op = "get_feature_importances"
           => /\ tuner' = tuner
              /\ UNCHANGED classVars
              /\ call.op = "get_feature_importances"
                     => call'.outcome = call.outcome /\ call'.result = call.result
              /\ (call'.outcome = "returned" /\ tuner.best_estimator_ # PyNone)
                     => /\ call'.result = tuner.best_estimator_.feature_importances_
                        /\ Len(call'.drawn) = 1
                        /\ call'.drawn[1].y = Reversed(tuner.X_colnames.v)
                        /\ call'.drawn[1].width = Reversed(call'.result.v)]_vars

\* importances of at least two features handed back
C7_Witness ==
    Returned("get_feature_importances") /\ call.result # PyNone /\ Len(call.result.v) >= 2

\* C8: bayes_opt_tuning on the class that leaves _bayes_evaluate as declared
\* by the base class raises a not-implemented error, returns nothing and
\* stores no estimator.
C8_NotImplemented ==
    (call.op = "bayes_opt_tuning" /\ cls = ParamTuning)
        => /\ call.outcome = "raised" /\ call.error = "NotImplementedError"
           /\ call.result = PyNone /\ tuner.best_estimator_ = PyNone

\* C9: a search call in which the back end or the fit raises ends with that
\* exception, after one invocation, returns nothing, and leaves the stored
\* best estimator as it was before the call.
C9_BackendFailurePropagates ==
    [][(call'.op \in SearchOps /\ call'.error \in BackendErrors)
           => /\ call'.outcome = "raised"
              /\ call'.detail \in {"fit", "maximize"}
              /\ call'.result = PyNone
              /\ call'.delegated.invocations = 1
              /\ tuner'.best_estimator_ = tuner.best_estimator_]_vars

\* a search that raised on a tuner that holds the estimator of an earlier one
C9_Witness ==
    /\ call.op \in SearchOps /\ call.error \in BackendErrors
    /\ tuner.best_estimator_ # PyNone

\* C10: in a Bayesian search on an SVM class whose ranges name exactly the
\* parameters of its callback, the callback finds everything it reads on the
\* tuner: the call does not end with an AttributeError.
C10_ObjectiveCompletes ==
    (call.op = "bayes_opt_tuning" /\ cls \in SVMClasses
         /\ DOMAIN call.delegated.pbounds.v = Signature(cls))
        => call.error # "AttributeError"

\* C11: after any sequence of calls the class-level default grids hold exactly
\* their declared values: no call leaves an entry (such as random_state from
\* seed injection) behind for a later default-argument call or a second
\* instance of the same class to see.
C11_DeclaredGridsUnchanged ==
    /\ CV_PARAMS_GRID = DeclaredGrid(cls)
    /\ CV_PARAMS_RANDOM = DeclaredRandom(cls)
    /\ BAYES_PARAMS = DeclaredBayes(cls)
====
